---- MODULE Spec2Model ----
(***************************************************************************)
(* Motor supply-chain pipeline of FAST-UAV:                                *)
(*   MotorMaterialComposition -> MotorMaterialCost -> MotorSupplyRisk,     *)
(* with the two reference-data loaders (PriceFetcher, SupplyRiskLoader)    *)
(* and the out-of-band price refresh.                                      *)
(*                                                                         *)
(* Numbers.  The code computes in binary floating point; the model         *)
(* computes the same expressions exactly, in fixed point:                  *)
(*   fractions, wgi_score, substitutability, recyclability : 1/100         *)
(*   motor mass: kg;  material masses: 1/100 kg                            *)
(*   prices: 1/10000 USD per kg;  costs: 1e-6 USD                          *)
(*   hhi: as in the file;  risk scores: 1e-10, held as two limbs           *)
(* so that every comparison and every sum below is the exact one.  NaN     *)
(* is the value of an input nobody has set; no evaluation is run on it.    *)
(***************************************************************************)
EXTENDS Integers, Sequences, FiniteSets, TLC

\* ------------------------------------------------------------------ bounds
MaxMass == 3            \* masses range over -1 .. MaxMass
MaxFracSteps == 4       \* fractions range over -1 .. MaxFracSteps steps of FracStep
MaxRows == 2            \* the explored free-form files hold at most MaxRows rows
MaxOverrides == 1       \* at most MaxOverrides price inputs are overridden after a setup

\* --------------------------------------------------------------- constants
One == 100              \* the literal 1.0, in hundredths
FracStep == One \div 4  \* grid step of the explored fractions

VARIABLES
    options,      \* the four declared fractions f_copper, f_magnet, f_steel, f_aluminum
    motorMass,    \* input  data:propulsion:motor:mass
    mass,         \* data:propulsion:motor:supply_chain:mass:<suffix>
    pricesFile,   \* the backing price file: [exists, rows]
    riskFile,     \* the backing risk file: [exists, rows]
    loadedPrices, \* what the latest PriceFetcher.load() gave its caller
    loadedRisk,   \* what the latest SupplyRiskLoader.load() gave its caller
    price,        \* inputs data:propulsion:motor:supply_chain:price:<suffix>
    overridden,   \* the price inputs the caller has set since setup
    cost,         \* outputs data:propulsion:motor:supply_chain:cost:<suffix>
    totalCost,    \* output  data:propulsion:motor:supply_chain:cost:total_material
    indicators,   \* MotorSupplyRisk._indicators
    score,        \* outputs data:propulsion:motor:supply_chain:risk:score:<suffix>
    index,        \* output  data:propulsion:motor:supply_chain:risk:index
    cmmf,         \* output  data:propulsion:motor:supply_chain:risk:critical_mass_fraction
    configured,   \* the components whose setup() has run
    op,           \* the latest operation
    warnings,     \* the warnings the latest operation emitted
    responses,    \* what the price API answered the latest operation, row by row
    failure       \* the exception the latest operation let propagate, "none" if it returned

files == <<pricesFile, riskFile>>
loads == <<loadedPrices, loadedRisk>>
costStage == <<price, overridden, cost, totalCost>>
riskStage == <<indicators, score, index, cmmf>>
vars == <<options, motorMass, mass, pricesFile, riskFile, loadedPrices, loadedRisk,
          price, overridden, cost, totalCost, indicators, score, index, cmmf,
          configured, op, warnings, responses, failure>>

\* A float input: NaN until somebody sets it, else the value v
NaN == [nan |-> TRUE, v |-> 0]
Float(x) == [nan |-> FALSE, v |-> x]

\* Variable suffixes of the per-material variables, in the order of the code's loops.
Suffixes == <<"copper", "magnet", "steel", "aluminum", "other">>
SuffixSet == {Suffixes[i] : i \in 1..Len(Suffixes)}

\* Options declared by initialize(), with their defaults.
DefaultOptions ==
    [f_copper |-> 25, f_magnet |-> 12, f_steel |-> 45, f_aluminum |-> 10]

Max(a, b) == IF a >= b THEN a ELSE b

\* ------------------------------------------------------------ reference files
\* A file is absent, or holds the rows pandas reads from it (comment lines are
\* already dropped by read_csv(comment="#")).  A cell is the text of one field:
\* a number float() accepts, or text float() raises on.
Num(x) == [t |-> "num", v |-> x]
BadCell == [t |-> "text", v |-> 0]
IsNum(c) == c.t = "num"

AbsentFile == [exists |-> FALSE, rows |-> <<>>]
FileOf(rows) == [exists |-> TRUE, rows |-> rows]
EmptyTable == <<>>
NothingLoaded == [called |-> FALSE, raised |-> FALSE, table |-> EmptyTable]

\* Wide integers: TLC's integers have 32 bits and a risk score needs 1e-10
\* resolution, so a score is held as two limbs, hi * LimbBase + lo, 0 <= lo < LimbBase.
LimbBase == 10^5
Wide(hi, lo) == [hi |-> hi + (lo \div LimbBase), lo |-> lo % LimbBase]
WideOf(n) == Wide(0, n)
WideZero == [hi |-> 0, lo |-> 0]
WideTimes(w, k) == Wide(w.hi * k, w.lo * k)
WideLess(a, b) == a.hi < b.hi \/ (a.hi = b.hi /\ a.lo < b.lo)
WideLeq(a, b) == ~WideLess(b, a)
\* np.clip(x, lo, hi)
WideClip(x, lo, hi) == IF WideLess(x, lo) THEN lo ELSE IF WideLess(hi, x) THEN hi ELSE x
Clip(x, lo, hi) == IF x < lo THEN lo ELSE IF x > hi THEN hi ELSE x

\* Output values as declared by add_output(val=0.0)
Zeros == [s \in SuffixSet |-> 0]
ZeroScores == [s \in SuffixSet |-> WideZero]
ZeroIndex == [num |-> WideZero, den |-> 1]
ZeroFraction == [num |-> 0, den |-> 1]

\* The cost and risk components before their setup() has run.
CostUnset ==
    /\ price = EmptyTable /\ overridden = {} /\ cost = Zeros /\ totalCost = 0
    /\ loadedPrices = NothingLoaded
RiskUnset ==
    /\ indicators = EmptyTable /\ score = ZeroScores /\ index = ZeroIndex
    /\ cmmf = ZeroFraction /\ loadedRisk = NothingLoaded
\* Nothing has been called yet.
Idle == op = "none" /\ warnings = {} /\ responses = <<>> /\ failure = "none"

\* ======================================================== composition stage
\* f_oth = max(0.0, 1.0 - f_cu - f_mag - f_st - f_al)
OtherFractionNoFloor(o) == One - o.f_copper - o.f_magnet - o.f_steel - o.f_aluminum
OtherFractionDropsAluminum(o) == Max(0, One - o.f_copper - o.f_magnet - o.f_steel)
OtherFraction(o) ==
    Max(0, One - o.f_copper - o.f_magnet - o.f_steel - o.f_aluminum)

\* MotorMaterialComposition.compute: the five outputs, each fraction * m.
CompositionOutputs(o, m) ==
    [s \in SuffixSet |->
        CASE s = "copper"   -> o.f_copper   * m
          [] s = "magnet"   -> o.f_magnet   * m
          [] s = "steel"    -> o.f_steel    * m
          [] s = "aluminum" -> o.f_aluminum * m
          [] s = "other"    -> OtherFraction(o) * m]

\* Sum of a per-suffix vector.
RECURSIVE SumFrom(_, _)
SumFrom(v, i) == IF i > Len(Suffixes) THEN 0 ELSE v[Suffixes[i]] + SumFrom(v, i + 1)
SumAll(v) == SumFrom(v, 1)

Fractions == {k * FracStep : k \in -1..MaxFracSteps}
Masses == -1..MaxMass
FracConfigs ==
    [f_copper : Fractions, f_magnet : Fractions, f_steel : Fractions, f_aluminum : Fractions]
        \cup {DefaultOptions}

\* The composition component, set up, on its own.
InitComposition ==
    /\ options \in FracConfigs
    /\ motorMass = NaN
    /\ mass = Zeros
    /\ pricesFile = AbsentFile
    /\ riskFile = AbsentFile
    /\ CostUnset /\ RiskUnset /\ Idle
    /\ configured = {"composition"}

\* One run of MotorMaterialComposition.compute on motor mass m.
CompositionCompute(m) ==
    /\ "composition" \in configured
    /\ motorMass' = Float(m)
    /\ mass' = CompositionOutputs(options, m)
    /\ op' = "composition_compute"
    /\ warnings' = {}
    /\ failure' = "none"
    /\ responses' = <<>>
    /\ UNCHANGED <<options, files, loads, costStage, riskStage, configured>>

NextComposition == \E m \in Masses : CompositionCompute(m)

SpecComposition == InitComposition /\ [][NextComposition]_vars

\* The outputs are those of a composition run on the current motor mass.
Composed == op \in {"composition_compute", "evaluate"}

FractionSum(o) == o.f_copper + o.f_magnet + o.f_steel + o.f_aluminum
FractionsInUnit(o) ==
    /\ o.f_copper \in 0..One   /\ o.f_magnet \in 0..One
    /\ o.f_steel \in 0..One    /\ o.f_aluminum \in 0..One

\* C1: with each fraction in [0,1], the four summing to at most 1 and m >= 0, the
\* five output masses are each non-negative and sum to m.
C1_MassesPartitionTotal ==
    (Composed /\ FractionsInUnit(options) /\ FractionSum(options) <= One
        /\ motorMass.v >= 0)
    => /\ \A s \in SuffixSet : mass[s] >= 0
       /\ SumAll(mass) = One * motorMass.v

C1_Witness ==
    /\ Composed
    /\ motorMass = Float(2)
    /\ options = DefaultOptions
    /\ mass["other"] = 16

\* C2 as stated: when the four fractions sum to more than 1, the other mass is 0
\* and the five masses sum to strictly less than m.  (Stated here for the
\* documented inputs only: each fraction in [0,1] and a positive motor mass.)
C2_SumBelowTotal ==
    (Composed /\ FractionsInUnit(options) /\ FractionSum(options) > One
        /\ motorMass.v > 0)
    => /\ mass["other"] = 0
       /\ SumAll(mass) < One * motorMass.v

\* C2 amended: when the four fractions sum to more than 1, the other mass is 0 and
\* the five masses sum to (f_copper+f_magnet+f_steel+f_aluminum) * m, which is
\* strictly more than m for m > 0, equal to m for m = 0 and less than m for m < 0.
C2_SumIsFractionSumTimesTotal ==
    (Composed /\ FractionSum(options) > One)
    => /\ mass["other"] = 0
       /\ SumAll(mass) = FractionSum(options) * motorMass.v
       /\ (motorMass.v > 0 => SumAll(mass) > One * motorMass.v)
       /\ (motorMass = Float(0) => SumAll(mass) = 0)
       /\ (motorMass.v < 0 => SumAll(mass) < One * motorMass.v)

C2_Witness ==
    /\ Composed
    /\ motorMass = Float(2)
    /\ FractionsInUnit(options)
    /\ FractionSum(options) = 150
    /\ SumAll(mass) = 300

\* ===================================================== reference-data loaders
\* material_cost.py: MATERIALS
MATERIALS == <<"copper", "ndfeb_magnet", "electrical_steel", "aluminum", "other">>
MaterialSet == {MATERIALS[i] : i \in 1..Len(MATERIALS)}

\* Fallback prices [USD/kg], in 1/10000 USD/kg
FALLBACK_PRICES ==
    [copper |-> 95000, ndfeb_magnet |-> 850000, electrical_steel |-> 18000,
     aluminum |-> 24000, other |-> 50000]

\* Built-in fallback risk indicators (wgi_score, substitutability, recyclability
\* in hundredths)
FALLBACK_RISK ==
    [copper           |-> [hhi |-> 1289, wgi_score |-> 65, eu_critical |-> FALSE,
                           substitutability |-> 85, recyclability |-> 43],
     ndfeb_magnet     |-> [hhi |-> 8547, wgi_score |-> 40, eu_critical |-> TRUE,
                           substitutability |-> 15, recyclability |-> 13],
     electrical_steel |-> [hhi |-> 642,  wgi_score |-> 40, eu_critical |-> FALSE,
                           substitutability |-> 75, recyclability |-> 55],
     aluminum         |-> [hhi |-> 789,  wgi_score |-> 40, eu_critical |-> FALSE,
                           substitutability |-> 85, recyclability |-> 42],
     other            |-> [hhi |-> 500,  wgi_score |-> 55, eu_critical |-> FALSE,
                           substitutability |-> 50, recyclability |-> 20]]

\* dict.setdefault over the fallback items: keys already present keep their value.
FillFallbackOverFile(table, fallback) == fallback @@ table
FillMissing(table, fallback) == table @@ fallback

\* prices[row["material"]] = float(row["price_usd_per_kg"]), row after row; a cell
\* float() cannot convert raises out of load().
RECURSIVE PriceRows(_, _, _)
PriceRows(rows, i, prices) ==
    IF i > Len(rows) THEN [raised |-> FALSE, table |-> prices]
    ELSE IF ~IsNum(rows[i].price_usd_per_kg) THEN [raised |-> TRUE, table |-> EmptyTable]
    ELSE PriceRows(rows, i + 1,
                   (rows[i].material :> rows[i].price_usd_per_kg.v) @@ prices)

\* (a load() without the path.exists() test: read_csv raises on the absent file)
PriceFetcherLoadNoExistsTest(file) ==
    LET r == PriceRows(file.rows, 1, EmptyTable) IN
    IF ~file.exists \/ r.raised
    THEN [raised |-> TRUE, warned |-> FALSE, table |-> EmptyTable]
    ELSE [raised |-> FALSE, warned |-> FALSE,
          table |-> FillMissing(r.table, FALLBACK_PRICES)]

\* PriceFetcher.load
PriceFetcherLoad(file) ==
    IF ~file.exists
    THEN [raised |-> FALSE, warned |-> TRUE, table |-> FALLBACK_PRICES]
    ELSE LET r == PriceRows(file.rows, 1, EmptyTable) IN
         IF r.raised
         THEN [raised |-> TRUE, warned |-> FALSE, table |-> EmptyTable]
         ELSE [raised |-> FALSE, warned |-> FALSE,
               table |-> FillMissing(r.table, FALLBACK_PRICES)]

\* bool_map = {"True": True, "False": False, True: True, False: False}; a column
\* pandas parsed as booleans and one it left as text give the same two keys here.
bool_map == [True |-> TRUE, False |-> FALSE]
BoolMapGet(cell) == IF cell \in DOMAIN bool_map THEN bool_map[cell] ELSE FALSE

RiskRowIsNumeric(row) ==
    /\ IsNum(row.hhi) /\ IsNum(row.wgi_score)
    /\ IsNum(row.substitutability) /\ IsNum(row.recyclability)

\* result[mat] = dict(hhi=float(...), wgi_score=float(...), eu_critical=bool_map.get(...), ...)
RiskRecordOf(row) ==
    [hhi |-> row.hhi.v, wgi_score |-> row.wgi_score.v,
     eu_critical |-> BoolMapGet(row.eu_critical_2023),
     substitutability |-> row.substitutability.v,
     recyclability |-> row.recyclability.v]

RECURSIVE RiskRows(_, _, _)
RiskRows(rows, i, result) ==
    IF i > Len(rows) THEN [raised |-> FALSE, table |-> result]
    ELSE IF ~RiskRowIsNumeric(rows[i]) THEN [raised |-> TRUE, table |-> EmptyTable]
    ELSE RiskRows(rows, i + 1, (rows[i].material :> RiskRecordOf(rows[i])) @@ result)

\* SupplyRiskLoader.load
SupplyRiskLoaderLoad(file) ==
    IF ~file.exists
    THEN [raised |-> FALSE, warned |-> TRUE, table |-> FALLBACK_RISK]
    ELSE LET r == RiskRows(file.rows, 1, EmptyTable) IN
         IF r.raised
         THEN [raised |-> TRUE, warned |-> FALSE, table |-> EmptyTable]
         ELSE [raised |-> FALSE, warned |-> FALSE,
               table |-> FillMissing(r.table, FALLBACK_RISK)]

PricesNotFound == [kind |-> "UserWarning", text |-> "Material prices CSV not found"]
RiskNotFound == [kind |-> "UserWarning", text |-> "Supply risk CSV not found"]

LoadedAs(r) == [called |-> TRUE, raised |-> r.raised, table |-> r.table]
WarnedBy(r, w) == IF r.warned THEN {w} ELSE {}
\* float() on text raises ValueError
RaisedBy(r) == IF r.raised THEN "ValueError" ELSE "none"

\* A call of PriceFetcher.load() on the price file as it is now.
PriceLoad ==
    /\ LET r == PriceFetcherLoad(pricesFile) IN
        /\ loadedPrices' = LoadedAs(r)
        /\ warnings' = WarnedBy(r, PricesNotFound)
        /\ failure' = RaisedBy(r)
    /\ op' = "price_load"
    /\ responses' = <<>>
    /\ UNCHANGED <<options, motorMass, mass, files, loadedRisk, costStage, riskStage,
                   configured>>

\* A call of SupplyRiskLoader.load() on the risk file as it is now.
RiskLoad ==
    /\ LET r == SupplyRiskLoaderLoad(riskFile) IN
        /\ loadedRisk' = LoadedAs(r)
        /\ warnings' = WarnedBy(r, RiskNotFound)
        /\ failure' = RaisedBy(r)
    /\ op' = "risk_load"
    /\ responses' = <<>>
    /\ UNCHANGED <<options, motorMass, mass, files, loadedPrices, costStage, riskStage,
                   configured>>

\* ---- the explored files
ExtraKey == "magnet"    \* a row keyed by a name outside MATERIALS
ShortKeys == {"copper", "ndfeb_magnet", "other", ExtraKey}
FileYear == "stored"    \* the year column of a file nobody has refreshed
IndicatorOf(mat) ==
    CASE mat = "copper" -> "COPP" [] mat = "aluminum" -> "ALUM" [] OTHER -> ""

\* Price of material number i in variant v of a well-formed file: 1.1, 1.2, ... USD/kg
FilePrice(i, v) == v * 10000 + i * 1000

PriceRowSet ==
    [material : ShortKeys,
     price_usd_per_kg : {Num(0), Num(70000), BadCell},
     world_bank_indicator : {"", "COPP"},
     year : {FileYear}]

RiskCells == {
    <<Num(5000), Num(50), Num(20), Num(10)>>,
    <<Num(10000), Num(0), Num(0), Num(0)>>,
    <<BadCell, Num(50), Num(20), Num(10)>>,
    <<Num(5000), Num(50), Num(20), BadCell>> }

RiskRowSet ==
    {[material |-> k, hhi |-> q[1], wgi_score |-> q[2], eu_critical_2023 |-> e,
      substitutability |-> q[3], recyclability |-> q[4]] :
        k \in ShortKeys, q \in RiskCells, e \in {"True", "False", "yes"}}

SeqsUpTo(S, n) == UNION {[1..k -> S] : k \in 0..n}

\* Well-formed files with one row for each material of a subset, in MATERIALS order.
PriceSubsetRows(S, v) ==
    SelectSeq([i \in 1..Len(MATERIALS) |->
                  [material |-> MATERIALS[i], price_usd_per_kg |-> Num(FilePrice(i, v)),
                   world_bank_indicator |-> IndicatorOf(MATERIALS[i]), year |-> FileYear]],
              LAMBDA r : r.material \in S)
RiskSubsetRows(S, v) ==
    SelectSeq([i \in 1..Len(MATERIALS) |->
                  [material |-> MATERIALS[i], hhi |-> Num(1000 * i + v),
                   wgi_score |-> Num(10 * i),
                   eu_critical_2023 |-> IF v = 1 THEN "True" ELSE "False",
                   substitutability |-> Num(10 * i + v), recyclability |-> Num(v)]],
              LAMBDA r : r.material \in S)

PriceFiles ==
    {AbsentFile} \cup {FileOf(r) : r \in SeqsUpTo(PriceRowSet, MaxRows)}
        \cup {FileOf(PriceSubsetRows(S, v)) : S \in SUBSET MaterialSet, v \in {1, 2}}
RiskFiles ==
    {AbsentFile} \cup {FileOf(r) : r \in SeqsUpTo(RiskRowSet, MaxRows)}
        \cup {FileOf(RiskSubsetRows(S, v)) : S \in SUBSET MaterialSet, v \in {1, 2}}

\* The two loaders, called on their own on any of the explored files.
InitLoader ==
    /\ options = DefaultOptions
    /\ motorMass = NaN
    /\ mass = Zeros
    /\ \/ pricesFile \in PriceFiles /\ riskFile = AbsentFile
       \/ pricesFile = AbsentFile /\ riskFile \in RiskFiles
    /\ CostUnset /\ RiskUnset /\ Idle
    /\ configured = {}

NextLoader == PriceLoad \/ RiskLoad

SpecLoader == InitLoader /\ [][NextLoader]_vars

\* ---- what a file says about a material
HasRow(file, mat) == \E i \in 1..Len(file.rows) : file.rows[i].material = mat
LastRow(file, mat) ==
    file.rows[CHOOSE i \in 1..Len(file.rows) :
                 /\ file.rows[i].material = mat
                 /\ \A j \in (i + 1)..Len(file.rows) : file.rows[j].material # mat]
PriceFileWellFormed(file) ==
    \A i \in 1..Len(file.rows) : IsNum(file.rows[i].price_usd_per_kg)
RiskFileWellFormed(file) ==
    \A i \in 1..Len(file.rows) :
        /\ RiskRowIsNumeric(file.rows[i])
        /\ file.rows[i].eu_critical_2023 \in {"True", "False"}
RiskValueInFile(row) ==
    [hhi |-> row.hhi.v, wgi_score |-> row.wgi_score.v,
     eu_critical |-> (row.eu_critical_2023 = "True"),
     substitutability |-> row.substitutability.v, recyclability |-> row.recyclability.v]

C4_AbsentFileGivesFallback ==
    /\ (op = "price_load" /\ ~pricesFile.exists)
       => /\ failure = "none" /\ ~loadedPrices.raised
          /\ PricesNotFound \in warnings
          /\ loadedPrices.table = FALLBACK_PRICES
    /\ (op = "risk_load" /\ ~riskFile.exists)
       => /\ failure = "none" /\ ~loadedRisk.raised
          /\ RiskNotFound \in warnings
          /\ loadedRisk.table = FALLBACK_RISK

C4_Witness ==
    /\ op = "risk_load"
    /\ ~riskFile.exists
    /\ RiskNotFound \in warnings
    /\ loadedRisk.table["ndfeb_magnet"].eu_critical

\* ============================================================== cost stage
\* _MAT_VARNAME: supply_chain material key -> variable suffix
MAT_VARNAME ==
    [copper |-> "copper", ndfeb_magnet |-> "magnet", electrical_steel |-> "steel",
     aluminum |-> "aluminum", other |-> "other"]

\* dict.get(key, default)
TableGet(table, key, default) == IF key \in DOMAIN table THEN table[key] ELSE default

KeyOfSuffix(s) == CHOOSE k \in MaterialSet : MAT_VARNAME[k] = s

\* MotorMaterialCost.setup: the default of each price input,
\* val=prices.get(mat_key, _FALLBACK_PRICES[mat_key])
PriceDefaults(prices) ==
    [s \in SuffixSet |->
        TableGet(prices, KeyOfSuffix(s), FALLBACK_PRICES[KeyOfSuffix(s)])]

\* (a compute() that loads the prices again instead of reading its inputs)
CostOutputsFromFile(m, p) ==
    LET r == PriceFetcherLoad(pricesFile) IN
    [s \in SuffixSet |->
        m[s] * (IF r.raised \/ s \in overridden THEN p[s] ELSE PriceDefaults(r.table)[s])]

\* MotorMaterialCost.compute, the loop: cost = float(mass) * float(price)
CostOutputs(m, p) == [s \in SuffixSet |-> m[s] * p[s]]

\* MotorMaterialCost.compute, the accumulator: total = 0.0; total += cost
RECURSIVE TotalFrom(_, _, _)
TotalFrom(c, i, total) ==
    IF i > Len(MATERIALS) THEN total
    ELSE TotalFrom(c, i + 1, total + c[MAT_VARNAME[MATERIALS[i]]])
TotalCostLastOnly(c) == c[MAT_VARNAME[MATERIALS[Len(MATERIALS)]]]
TotalCost(c) == TotalFrom(c, 1, 0)

\* MotorMaterialCost.setup.  A load() that raises propagates out of setup(): the
\* component is not configured and cannot be evaluated until a setup succeeds.
CostSetup ==
    /\ LET r == PriceFetcherLoad(pricesFile) IN
        /\ loadedPrices' = LoadedAs(r)
        /\ warnings' = WarnedBy(r, PricesNotFound)
        /\ failure' = RaisedBy(r)
        /\ IF r.raised
           THEN configured' = configured \ {"cost"} /\ UNCHANGED costStage
           ELSE /\ price' = PriceDefaults(r.table)
                /\ overridden' = {}
                /\ cost' = Zeros
                /\ totalCost' = 0
                /\ configured' = configured \cup {"cost"}
    /\ op' = "cost_setup"
    /\ responses' = <<>>
    /\ UNCHANGED <<options, motorMass, mass, files, loadedRisk, riskStage>>

\* The caller sets one price input between setup and the evaluation.
SetPrice(s, p) ==
    /\ "cost" \in configured
    /\ op \in {"cost_setup", "setup", "set_price"}
    /\ Cardinality(overridden \cup {s}) <= MaxOverrides
    /\ price' = [price EXCEPT ![s] = p]
    /\ overridden' = overridden \cup {s}
    /\ op' = "set_price"
    /\ warnings' = {}
    /\ failure' = "none"
    /\ responses' = <<>>
    /\ UNCHANGED <<options, motorMass, mass, files, loads, cost, totalCost, riskStage,
                   configured>>

\* One run of MotorMaterialCost.compute on mass inputs mv.
CostStageCompute(mv) ==
    /\ "cost" \in configured
    /\ mass' = mv
    /\ cost' = CostOutputs(mv, price)
    /\ totalCost' = TotalCost(CostOutputs(mv, price))
    /\ op' = "cost_compute"
    /\ warnings' = {}
    /\ failure' = "none"
    /\ responses' = <<>>
    /\ UNCHANGED <<options, motorMass, files, loads, price, overridden, riskStage,
                   configured>>

\* ---- explored inputs of a stage run on its own
LargePrice == 200 * 10000           \* 200 USD/kg
OverridePrices == {0, LargePrice}
StageMasses == -1..MaxMass
\* masses of a stage run on its own: one value for one material and 0 or 1 for
\* the four others, masses that cancel or sum below zero, and masses of both
\* signs with a positive total
StageMassVectors ==
    {[s \in SuffixSet |-> IF s = a THEN x ELSE z] :
        a \in SuffixSet, x \in StageMasses, z \in {0, 1}}
    \cup {[s \in SuffixSet |-> IF s = "copper" THEN 2 ELSE IF s = "magnet" THEN -2 ELSE 0],
          [s \in SuffixSet |-> IF s = "steel" THEN 1 ELSE IF s = "other" THEN -3 ELSE 0],
          [s \in SuffixSet |-> IF s = "copper" THEN MaxMass ELSE IF s = "other" THEN -1 ELSE 0],
          [s \in SuffixSet |-> IF s = "copper" THEN -1 ELSE IF s = "other" THEN MaxMass ELSE 0]}

FullPriceFile == FileOf(PriceSubsetRows(MaterialSet, 1))
BadPriceFile ==
    FileOf(<<[material |-> "copper", price_usd_per_kg |-> BadCell,
              world_bank_indicator |-> "COPP", year |-> FileYear]>>)
StagePriceFiles ==
    {AbsentFile, FullPriceFile, FileOf(PriceSubsetRows({"copper", "ndfeb_magnet"}, 2)),
     BadPriceFile}

\* The cost component on its own, before its setup.
InitCost ==
    /\ options = DefaultOptions
    /\ motorMass = NaN
    /\ mass = Zeros
    /\ pricesFile \in StagePriceFiles
    /\ riskFile = AbsentFile
    /\ CostUnset /\ RiskUnset /\ Idle
    /\ configured = {}

NextCost ==
    \/ CostSetup
    \/ \E s \in SuffixSet, p \in OverridePrices : SetPrice(s, p)
    \/ \E mv \in StageMassVectors : CostStageCompute(mv)

SpecCost == InitCost /\ [][NextCost]_vars

\* C5: after compute, each per-material cost is the mass times the price input of
\* the same material (the price loaded for that material's key unless the caller
\* has overridden it), and the total is the sum of the five costs.
C5_CostsAreMassTimesPrice ==
    op = "cost_compute"
    => /\ \A k \in MaterialSet :
             LET s == MAT_VARNAME[k] IN
             /\ cost[s] = mass[s] * price[s]
             /\ s \notin overridden => price[s] = loadedPrices.table[k]
       /\ totalCost = cost["copper"] + cost["magnet"] + cost["steel"]
                        + cost["aluminum"] + cost["other"]

\* a large price overridden, the steel price from the file
C5_Witness ==
    /\ op = "cost_compute"
    /\ pricesFile = FullPriceFile
    /\ overridden = {"magnet"}
    /\ price["magnet"] = LargePrice
    /\ mass["magnet"] = MaxMass /\ mass["steel"] = 1
    /\ cost["steel"] = FilePrice(3, 1)
    /\ totalCost > LargePrice

\* ============================================================== risk stage
HhiFull == 10000        \* hhi_norm = hhi / 10000.0

\* The score 1.0, in units of 1 / (HhiFull * One^3)
ScoreOne == WideTimes(WideOf(HhiFull * One * One), One)

\* _compute_mrs: hhi_norm * country_risk * (1 - substitutability) * (1 - recyclability),
\* clipped to [0, 1]
ComputeMrs(hhi, wgi_score, substitutability, recyclability) ==
    LET country_risk == One - Clip(wgi_score, 0, One)
        mrs == WideTimes(WideOf(hhi * country_risk * (One - substitutability)),
                         One - recyclability)
    IN  WideClip(mrs, WideZero, ScoreOne)

\* ind = self._indicators.get(mat_key, _FALLBACK_RISK[mat_key])
IndicatorsGet(ind, k) == TableGet(ind, k, FALLBACK_RISK[k])

\* MotorSupplyRisk.compute, first loop: the five scores
RiskScores(ind) ==
    [s \in SuffixSet |->
        LET i == IndicatorsGet(ind, KeyOfSuffix(s)) IN
        ComputeMrs(i.hhi, i.wgi_score, i.substitutability, i.recyclability)]

\* total_mass = sum(masses.values())
RECURSIVE MassFrom(_, _)
MassFrom(mv, i) ==
    IF i > Len(MATERIALS) THEN 0 ELSE mv[MAT_VARNAME[MATERIALS[i]]] + MassFrom(mv, i + 1)
TotalMass(mv) == MassFrom(mv, 1)

\* if total_mass <= 0.0
TotalMassGuardStrict(total) == total < 0
TotalMassGuard(total) == total <= 0

\* sum(scores[mat_key] * masses[mat_key] / total_mass for mat_key, _ in self._mat_order),
\* the numerator, limb by limb
RECURSIVE WeightedFrom(_, _, _, _, _)
WeightedFrom(sc, mv, i, hi, lo) ==
    IF i > Len(MATERIALS) THEN Wide(hi, lo)
    ELSE LET s == MAT_VARNAME[MATERIALS[i]] IN
         WeightedFrom(sc, mv, i + 1, hi + sc[s].hi * mv[s], lo + sc[s].lo * mv[s])
Weighted(sc, mv) == WeightedFrom(sc, mv, 1, 0, 0)

\* np.clip(asri, 0.0, 1.0), asri = weighted / total with total > 0
NoClipIndex(weighted, total) == [num |-> weighted, den |-> total]
ClipIndex(weighted, total) ==
    [num |-> WideClip(weighted, WideZero, WideTimes(ScoreOne, total)), den |-> total]

\* sum(masses[mat_key] for ... if self._indicators.get(...)["eu_critical"])
RECURSIVE CriticalFrom(_, _, _)
CriticalFrom(ind, mv, i) ==
    IF i > Len(MATERIALS) THEN 0
    ELSE (IF IndicatorsGet(ind, MATERIALS[i]).eu_critical
          THEN mv[MAT_VARNAME[MATERIALS[i]]] ELSE 0) + CriticalFrom(ind, mv, i + 1)
CriticalMassByFallbackFlags(ind, mv) == CriticalFrom(FALLBACK_RISK, mv, 1)
CriticalMass(ind, mv) == CriticalFrom(ind, mv, 1)

\* (a compute() whose guarded return leaves the index and the fraction unwritten)
RiskOutputsGuardKeeps(ind, mv) ==
    LET sc == RiskScores(ind)
        total == TotalMass(mv)
    IN  IF TotalMassGuard(total)
        THEN [raised |-> FALSE, score |-> sc, index |-> index, cmmf |-> cmmf]
        ELSE [raised |-> FALSE, score |-> sc,
              index |-> ClipIndex(Weighted(sc, mv), total),
              cmmf |-> [num |-> CriticalMass(ind, mv), den |-> total]]

\* MotorSupplyRisk.compute.  The scores are written first; past the guard the
\* total is positive; a division by a zero total would raise ZeroDivisionError
\* (the masses are Python floats) before the index and the fraction are written.
RiskOutputs(ind, mv) ==
    LET sc == RiskScores(ind)
        total == TotalMass(mv)
    IN  IF TotalMassGuard(total)
        THEN [raised |-> FALSE, score |-> sc, index |-> ZeroIndex, cmmf |-> ZeroFraction]
        ELSE IF total = 0
        THEN [raised |-> TRUE, score |-> sc, index |-> ZeroIndex, cmmf |-> ZeroFraction]
        ELSE [raised |-> FALSE, score |-> sc,
              index |-> ClipIndex(Weighted(sc, mv), total),
              cmmf |-> [num |-> CriticalMass(ind, mv), den |-> total]]

\* MotorSupplyRisk.setup of a component that stands alone in its own problem,
\* outside the MotorSupplyChain group.
RiskSetup ==
    /\ "composition" \notin configured
    /\ LET r == SupplyRiskLoaderLoad(riskFile) IN
        /\ loadedRisk' = LoadedAs(r)
        /\ warnings' = WarnedBy(r, RiskNotFound)
        /\ failure' = RaisedBy(r)
        /\ IF r.raised
           THEN configured' = configured \ {"risk"} /\ UNCHANGED riskStage
           ELSE /\ indicators' = r.table
                /\ score' = ZeroScores
                /\ index' = ZeroIndex
                /\ cmmf' = ZeroFraction
                /\ configured' = configured \cup {"risk"}
    /\ op' = "risk_setup"
    /\ responses' = <<>>
    /\ UNCHANGED <<options, motorMass, mass, files, loadedPrices, costStage>>

\* One run of MotorSupplyRisk.compute on mass inputs mv.
RiskStageCompute(mv) ==
    /\ configured = {"risk"}
    /\ mass' = mv
    /\ LET r == RiskOutputs(indicators, mv) IN
        /\ score' = r.score
        /\ index' = IF r.raised THEN index ELSE r.index
        /\ cmmf' = IF r.raised THEN cmmf ELSE r.cmmf
        /\ failure' = IF r.raised THEN "ZeroDivisionError" ELSE "none"
    /\ op' = "risk_compute"
    /\ warnings' = {}
    /\ responses' = <<>>
    /\ UNCHANGED <<options, motorMass, files, loads, costStage, indicators, configured>>

\* ======================================================== pipeline assembly
\* MotorSupplyChain.setup: the three subsystems are set up in the order they are
\* added; the first load() that raises ends the setup.
Setup ==
    /\ "risk" \in configured => "composition" \in configured
    /\ LET rp == PriceFetcherLoad(pricesFile)
           rr == SupplyRiskLoaderLoad(riskFile)
       IN
        /\ loadedPrices' = LoadedAs(rp)
        /\ IF rp.raised
           THEN /\ UNCHANGED <<costStage, riskStage, loadedRisk>>
                /\ warnings' = WarnedBy(rp, PricesNotFound)
                /\ failure' = RaisedBy(rp)
                /\ configured' = {"composition"}
           ELSE /\ price' = PriceDefaults(rp.table)
                /\ overridden' = {}
                /\ cost' = Zeros
                /\ totalCost' = 0
                /\ loadedRisk' = LoadedAs(rr)
                /\ warnings' = WarnedBy(rp, PricesNotFound) \cup WarnedBy(rr, RiskNotFound)
                /\ failure' = RaisedBy(rr)
                /\ IF rr.raised
                   THEN configured' = {"composition", "cost"} /\ UNCHANGED riskStage
                   ELSE /\ indicators' = rr.table
                        /\ score' = ZeroScores
                        /\ index' = ZeroIndex
                        /\ cmmf' = ZeroFraction
                        /\ configured' = {"composition", "cost", "risk"}
    /\ motorMass' = NaN
    /\ mass' = Zeros
    /\ op' = "setup"
    /\ responses' = <<>>
    /\ UNCHANGED <<options, files>>

\* (a cost stage that reads the risk table: EU-critical materials cost double)
PipelineCriticalSurcharge(o, m, p, ind) ==
    LET mv == CompositionOutputs(o, m)
        ps == [s \in SuffixSet |->
                  IF IndicatorsGet(ind, KeyOfSuffix(s)).eu_critical THEN 2 * p[s] ELSE p[s]]
    IN  [mass |-> mv, cost |-> CostOutputs(mv, ps), total |-> TotalCost(CostOutputs(mv, ps)),
         risk |-> RiskOutputs(ind, mv)]

\* The three subsystems run in the order they were added, connected by the
\* promoted names only: the composition's five masses are the mass inputs of
\* the cost stage and of the risk stage.
Pipeline(o, m, p, ind) ==
    LET mv == CompositionOutputs(o, m) IN
    [mass |-> mv, cost |-> CostOutputs(mv, p), total |-> TotalCost(CostOutputs(mv, p)),
     risk |-> RiskOutputs(ind, mv)]

\* One evaluation of the assembled pipeline on motor mass m: composition, then
\* cost and risk on the composition's five masses.
Evaluate(m) ==
    /\ configured = {"composition", "cost", "risk"}
    /\ motorMass' = Float(m)
    /\ LET out == Pipeline(options, m, price, indicators)
           r == out.risk
       IN
        /\ mass' = out.mass
        /\ cost' = out.cost
        /\ totalCost' = out.total
        /\ score' = r.score
        /\ index' = IF r.raised THEN index ELSE r.index
        /\ cmmf' = IF r.raised THEN cmmf ELSE r.cmmf
        /\ failure' = IF r.raised THEN "ZeroDivisionError" ELSE "none"
    /\ op' = "evaluate"
    /\ warnings' = {}
    /\ responses' = <<>>
    /\ UNCHANGED <<options, files, loads, price, overridden, indicators, configured>>

\* ---- explored risk files
RiskRow(k, hhi, wgi, eu, sub, rec) ==
    [material |-> k, hhi |-> Num(hhi), wgi_score |-> Num(wgi), eu_critical_2023 |-> eu,
     substitutability |-> Num(sub), recyclability |-> Num(rec)]
\* every material at the top of every range: each score is 1, all are critical
MaxRiskFile ==
    FileOf([i \in 1..Len(MATERIALS) |-> RiskRow(MATERIALS[i], HhiFull, 0, "True", 0, 0)])
\* two rows in range, the three other materials from the fallback
PartialRiskFile ==
    FileOf(<<RiskRow("copper", HhiFull, 0, "True", 0, 0),
             RiskRow("other", 0, One, "False", One, One)>>)
\* indicators outside the documented ranges
OutOfRangeRiskFile ==
    FileOf(<<RiskRow("copper", 2 * HhiFull, -50, "False", -One, 0),
             RiskRow("ndfeb_magnet", 5000, 50, "True", 150, 50),
             RiskRow("aluminum", 5000, 150, "True", 50, 50)>>)
BadRiskFile ==
    FileOf(<<[material |-> "copper", hhi |-> BadCell, wgi_score |-> Num(50),
              eu_critical_2023 |-> "True", substitutability |-> Num(50),
              recyclability |-> Num(50)]>>)
StageRiskFiles ==
    {AbsentFile, MaxRiskFile, PartialRiskFile, OutOfRangeRiskFile, BadRiskFile,
     FileOf(RiskSubsetRows(MaterialSet, 1)), FileOf(RiskSubsetRows(MaterialSet, 2))}

\* fractions summing to 1.5
OverUnityOptions ==
    [f_copper |-> 50, f_magnet |-> 25, f_steel |-> 50, f_aluminum |-> 25]

\* The risk component, fed its masses directly or by the assembled pipeline.
InitRisk ==
    /\ options \in {DefaultOptions, OverUnityOptions}
    /\ motorMass = NaN
    /\ mass = Zeros
    /\ pricesFile = AbsentFile
    /\ riskFile \in StageRiskFiles
    /\ CostUnset /\ RiskUnset /\ Idle
    /\ configured = {}

NextRisk ==
    \/ RiskSetup
    \/ \E mv \in StageMassVectors : RiskStageCompute(mv)
    \/ Setup
    \/ \E m \in Masses : Evaluate(m)

SpecRisk == InitRisk /\ [][NextRisk]_vars

IndicatorsInRange(ind) ==
    \A k \in MaterialSet :
        /\ ind[k].hhi \in 0..HhiFull
        /\ ind[k].wgi_score \in 0..One
        /\ ind[k].substitutability \in 0..One
        /\ ind[k].recyclability \in 0..One

\* The risk outputs are those of a compute on the current masses.
RiskRan == op \in {"risk_compute", "evaluate"}

\* C6: with every indicator in its documented range, whatever the masses, each
\* Material Risk Score lies in [0,1] and the Aggregate Supply Risk Index lies in [0,1].
C6_ScoresAndIndexInUnit ==
    (RiskRan /\ IndicatorsInRange(indicators))
    => /\ failure = "none"
       /\ \A s \in SuffixSet : WideLeq(WideZero, score[s]) /\ WideLeq(score[s], ScoreOne)
       /\ index.den > 0
       /\ WideLeq(WideZero, index.num)
       /\ WideLeq(index.num, WideTimes(ScoreOne, index.den))

\* masses of both signs with a positive total: the unclipped index would exceed 1
C6_Witness ==
    /\ op = "risk_compute"
    /\ riskFile = PartialRiskFile
    /\ mass["copper"] = MaxMass /\ mass["other"] = -1 /\ TotalMass(mass) = MaxMass - 1
    /\ index.num = WideTimes(ScoreOne, index.den)

\* C7: when the five masses sum to zero or less, the risk index and the critical
\* mass fraction are exactly 0 and nothing is divided by the total (no
\* ZeroDivisionError); when the pipeline is evaluated on a motor mass of 0, the
\* five masses, the five costs and the total cost are 0 as well.
C7_ZeroTotalIsGuarded ==
    /\ (RiskRan /\ TotalMass(mass) <= 0)
       => /\ failure = "none"
          /\ index = ZeroIndex
          /\ cmmf = ZeroFraction
    /\ (op = "evaluate" /\ motorMass = Float(0))
       => /\ mass = Zeros
          /\ cost = Zeros
          /\ totalCost = 0
          /\ index = ZeroIndex /\ cmmf = ZeroFraction

\* non-zero masses that cancel
C7_Witness ==
    /\ op = "risk_compute"
    /\ mass["copper"] = 2 /\ mass["magnet"] = -2
    /\ TotalMass(mass) = 0
    /\ indicators = FALLBACK_RISK
    /\ score["magnet"] # WideZero
    /\ index = ZeroIndex

FlaggedMass(k) == IF indicators[k].eu_critical THEN mass[MAT_VARNAME[k]] ELSE 0

\* C8: with non-negative masses and a positive total, the critical-material mass
\* fraction is the summed mass of exactly the materials whose loaded record is
\* flagged EU-critical over the total of the five masses, and lies in [0,1]; with
\* the fallback table it is the magnet mass over the total.
C8_CriticalMassFraction ==
    (RiskRan /\ (\A s \in SuffixSet : mass[s] >= 0) /\ TotalMass(mass) > 0)
    => /\ cmmf.den = mass["copper"] + mass["magnet"] + mass["steel"]
                        + mass["aluminum"] + mass["other"]
       /\ cmmf.num = FlaggedMass("copper") + FlaggedMass("ndfeb_magnet")
                        + FlaggedMass("electrical_steel") + FlaggedMass("aluminum")
                        + FlaggedMass("other")
       /\ 0 <= cmmf.num /\ cmmf.num <= cmmf.den
       /\ (indicators = FALLBACK_RISK => cmmf.num = mass["magnet"])

\* a file that flags copper as well: copper and magnet both count
C8_Witness ==
    /\ op = "risk_compute"
    /\ riskFile = PartialRiskFile
    /\ mass["copper"] = 1 /\ mass["magnet"] = 2 /\ TotalMass(mass) = 6
    /\ cmmf = [num |-> 3, den |-> 6]

\* ================================================ out-of-band price refresh
NoneCell == [t |-> "none", v |-> 0]     \* the "value" of a record that has none
ThisYear == "now"                       \* datetime.datetime.now().year

\* warnings.warn(f"No data returned for ..."), warnings.warn(f"Could not fetch price for ...")
NoDataReturned(mat) ==
    [kind |-> "UserWarning", text |-> "No data returned", material |-> mat]
CouldNotFetch(mat) ==
    [kind |-> "UserWarning", text |-> "Could not fetch price", material |-> mat]

\* What the API call of one row comes to.  asked: the row has an indicator and a
\* request was made; raises: requests.get() or resp.json() raised (timeout,
\* transport, parsing); records: the "value" fields of data[1], [] when data is
\* not a list of two.
NotAsked == [asked |-> FALSE, raises |-> FALSE, records |-> <<>>]
TimedOut == [asked |-> TRUE, raises |-> TRUE, records |-> <<>>]
Answer(records) == [asked |-> TRUE, raises |-> FALSE, records |-> records]

\* indicator = str(row.get("world_bank_indicator", "")).strip();
\* if not indicator or indicator == "nan"
HasIndicator(row) == row.world_bank_indicator \notin {"", "nan"}

\* values = [float(r["value"]) for r in records if r.get("value") is not None]
FetchedValues(resp) == SelectSeq(resp.records, LAMBDA c : c # NoneCell)
\* the try block raises before `if values`: the request, or float() on text
FetchRaises(resp) ==
    resp.raises \/ \E i \in 1..Len(resp.records) : resp.records[i].t = "text"

RECURSIVE SumValues(_, _)
SumValues(values, i) ==
    IF i > Len(values) THEN 0 ELSE values[i].v + SumValues(values, i + 1)

\* round(x, 4) of x = num / den tenthousandths: to the nearest, ties to even
RoundHalfEven(num, den) ==
    LET q == num \div den
        r == num % den
    IN  IF 2 * r < den THEN q
        ELSE IF 2 * r > den THEN q + 1
        ELSE IF q % 2 = 0 THEN q ELSE q + 1

\* new_price = np.mean(values) / 1000.0; round(new_price, 4): USD per metric ton
\* to 1/10000 USD per kg
NewPrice(values) == RoundHalfEven(SumValues(values, 1) * 10, Len(values))

\* pandas reads a price column holding any text as a column of text, and the
\* print's {row['price_usd_per_kg']:.4f} raises ValueError on text
PriceColumnIsNumeric(rows) == \A i \in 1..Len(rows) : IsNum(rows[i].price_usd_per_kg)

\* (a loop body whose except clause appends nothing for the row)
RefreshRowDropsFailed(row, resp, numeric) ==
    LET stored == row.price_usd_per_kg IN
    IF ~HasIndicator(row) THEN [updated |-> <<stored>>, warned |-> {}]
    ELSE IF FetchRaises(resp)
    THEN [updated |-> <<>>, warned |-> {CouldNotFetch(row.material)}]
    ELSE IF FetchedValues(resp) # <<>>
    THEN [updated |-> <<Num(NewPrice(FetchedValues(resp)))>>, warned |-> {}]
    ELSE [updated |-> <<stored>>, warned |-> {NoDataReturned(row.material)}]

\* The loop body of refresh_from_worldbank for one row: what it appends to
\* `updated` and the warnings it emits.  With values and a text column the new
\* price is appended, the print raises inside the try, and the except clause
\* appends the stored price as well.
RefreshRow(row, resp, numeric) ==
    LET stored == row.price_usd_per_kg IN
    IF ~HasIndicator(row) THEN [updated |-> <<stored>>, warned |-> {}]
    ELSE IF FetchRaises(resp)
    THEN [updated |-> <<stored>>, warned |-> {CouldNotFetch(row.material)}]
    ELSE IF FetchedValues(resp) # <<>>
    THEN IF numeric
         THEN [updated |-> <<Num(NewPrice(FetchedValues(resp)))>>, warned |-> {}]
         ELSE [updated |-> <<Num(NewPrice(FetchedValues(resp))), stored>>,
               warned |-> {CouldNotFetch(row.material)}]
    ELSE [updated |-> <<stored>>, warned |-> {NoDataReturned(row.material)}]

\* for idx, row in df.iterrows()
RECURSIVE RefreshLoop(_, _, _, _, _)
RefreshLoop(rows, resp, i, updated, warned) ==
    IF i > Len(rows) THEN [updated |-> updated, warned |-> warned]
    ELSE LET r == RefreshRow(rows[i], resp[i], PriceColumnIsNumeric(rows)) IN
         RefreshLoop(rows, resp, i + 1, updated \o r.updated, warned \cup r.warned)

\* df["price_usd_per_kg"] = updated; df["year"] = now().year; df.to_csv(path)
WrittenRows(rows, updated) ==
    [i \in 1..Len(rows) |->
        [rows[i] EXCEPT !.price_usd_per_kg = updated[i], !.year = ThisYear]]

\* PriceFetcher.refresh_from_worldbank on the price file.  installed: the
\* requests package can be imported; resp: the API's answer for each row.
\* read_csv raises FileNotFoundError on an absent file; the assignment of
\* `updated` raises ValueError when its length is not the number of rows.
Refresh(installed, resp) ==
    /\ IF ~installed
       THEN /\ failure' = "ImportError"
            /\ responses' = <<>>
            /\ warnings' = {}
            /\ UNCHANGED pricesFile
       ELSE IF ~pricesFile.exists
       THEN /\ failure' = "FileNotFoundError"
            /\ responses' = <<>>
            /\ warnings' = {}
            /\ UNCHANGED pricesFile
       ELSE LET r == RefreshLoop(pricesFile.rows, resp, 1, <<>>, {}) IN
            /\ responses' = resp
            /\ warnings' = r.warned
            /\ IF Len(r.updated) # Len(pricesFile.rows)
               THEN failure' = "ValueError" /\ UNCHANGED pricesFile
               ELSE /\ failure' = "none"
                    /\ pricesFile' = FileOf(WrittenRows(pricesFile.rows, r.updated))
    /\ op' = "refresh"
    /\ UNCHANGED <<options, motorMass, mass, riskFile, loads, costStage, riskStage,
                   configured>>

\* ---- explored answers and files
ExploredResponses ==
    {TimedOut,
     Answer(<<>>),
     Answer(<<NoneCell, NoneCell>>),
     Answer(<<Num(9000)>>),
     Answer(<<Num(8000), NoneCell, Num(8001), Num(8001)>>),
     Answer(<<Num(9000), BadCell>>)}

\* one answer for each material whose row has an indicator
ResponsesFor(rows) ==
    LET asked == {rows[i].material : i \in {j \in 1..Len(rows) : HasIndicator(rows[j])}} IN
    {[i \in 1..Len(rows) |->
        IF HasIndicator(rows[i]) THEN pick[rows[i].material] ELSE NotAsked] :
     pick \in [asked -> ExploredResponses]}

\* copper is a number, but the magnet row makes the column text
TextColumnFile ==
    FileOf(<<[material |-> "copper", price_usd_per_kg |-> Num(FilePrice(1, 1)),
              world_bank_indicator |-> "COPP", year |-> FileYear],
             [material |-> "ndfeb_magnet", price_usd_per_kg |-> BadCell,
              world_bank_indicator |-> "", year |-> FileYear]>>)
RefreshPriceFiles == {AbsentFile, FullPriceFile, BadPriceFile, TextColumnFile}
RefreshMasses == {0, MaxMass}

\* The assembled pipeline and the maintenance refresh of its price file.
InitRefresh ==
    /\ options = DefaultOptions
    /\ motorMass = NaN
    /\ mass = Zeros
    /\ pricesFile \in RefreshPriceFiles
    /\ riskFile = AbsentFile
    /\ CostUnset /\ RiskUnset /\ Idle
    /\ configured = {}

NextRefresh ==
    \/ Setup
    \/ SetPrice("copper", LargePrice)
    \/ \E m \in RefreshMasses : Evaluate(m)
    \/ Refresh(FALSE, <<>>)
    \/ \E resp \in ResponsesFor(pricesFile.rows) : Refresh(TRUE, resp)

SpecRefresh == InitRefresh /\ [][NextRefresh]_vars

\* C9: on an existing price file with numeric prices and with requests
\* installed, every refresh completes by writing the file, whatever the API
\* answers row by row: a row with no indicator, a row whose fetch raises and a
\* row whose answer has no values are written back with the stored price, the
\* last two with a warning; an answered row raises no warning; nothing propagates.
C9_RefreshRetainsAndCompletes ==
    [][(op' = "refresh" /\ failure' # "ImportError" /\ pricesFile.exists
            /\ PriceFileWellFormed(pricesFile))
       => /\ failure' = "none"
          /\ pricesFile'.exists
          /\ Len(pricesFile'.rows) = Len(pricesFile.rows)
          /\ \A w \in warnings' : w.kind = "UserWarning"
          /\ \A i \in 1..Len(pricesFile.rows) :
                LET old == pricesFile.rows[i]
                    new == pricesFile'.rows[i]
                    a == responses'[i]
                    failed == a.raises \/ \E j \in 1..Len(a.records) : a.records[j] = BadCell
                    empty == \A j \in 1..Len(a.records) : a.records[j] = NoneCell
                IN  /\ new.material = old.material
                    /\ new.year = ThisYear
                    /\ old.world_bank_indicator = ""
                          => /\ new.price_usd_per_kg = old.price_usd_per_kg
                             /\ \A w \in warnings' : w.material # old.material
                    /\ (old.world_bank_indicator # "" /\ failed)
                          => /\ new.price_usd_per_kg = old.price_usd_per_kg
                             /\ CouldNotFetch(old.material) \in warnings'
                    /\ (old.world_bank_indicator # "" /\ ~failed /\ empty)
                          => /\ new.price_usd_per_kg = old.price_usd_per_kg
                             /\ NoDataReturned(old.material) \in warnings'
                    /\ (old.world_bank_indicator # "" /\ ~failed /\ ~empty)
                          => \A w \in warnings' : w.material # old.material]_vars

\* copper timed out and keeps its price, aluminum is updated, the file is written
C9_Witness ==
    /\ op = "refresh" /\ failure = "none"
    /\ Len(pricesFile.rows) = Len(MATERIALS)
    /\ responses[1] = TimedOut
    /\ responses[4] = Answer(<<Num(8000), NoneCell, Num(8001), Num(8001)>>)
    /\ pricesFile.rows[1].price_usd_per_kg = Num(FilePrice(1, 1))
    /\ pricesFile.rows[4].price_usd_per_kg = Num(80007)
    /\ pricesFile.rows[2].year = ThisYear
    /\ warnings = {CouldNotFetch("copper")}

\* C10: a refresh changes no price input, no loaded table and no output of the
\* configured pipeline; an evaluation leaves both reference files as they are
\* and computes every cost from the price the instance holds, which is, unless
\* the caller has overridden it, the price loaded at its setup; a setup that
\* succeeds takes each price from the file as it is at that moment.
C10_RefreshLeavesInstanceAlone ==
    [][/\ op' = "refresh"
          => UNCHANGED <<price, overridden, cost, totalCost, loadedPrices, loadedRisk,
                         mass, indicators, score, index, cmmf, configured, riskFile>>
       /\ op' = "evaluate"
          => /\ UNCHANGED <<pricesFile, riskFile, price, overridden, loadedPrices>>
             /\ \A k \in MaterialSet :
                   LET s == MAT_VARNAME[k] IN
                   /\ cost'[s] = mass'[s] * price[s]
                   /\ s \notin overridden => price[s] = loadedPrices.table[k]
       /\ (op' = "setup" /\ failure' = "none" /\ pricesFile.exists)
          => /\ UNCHANGED <<pricesFile, riskFile>>
             /\ \A k \in MaterialSet :
                   HasRow(pricesFile, k)
                   => price'[MAT_VARNAME[k]] = LastRow(pricesFile, k).price_usd_per_kg.v]_vars

\* evaluated on the price loaded at setup although the file has been rewritten since
C10_Witness ==
    /\ op = "evaluate"
    /\ pricesFile.exists /\ Len(pricesFile.rows) = Len(MATERIALS)
    /\ pricesFile.rows[1].year = ThisYear
    /\ pricesFile.rows[1].price_usd_per_kg = Num(90000)
    /\ "copper" \notin overridden
    /\ price["copper"] = FilePrice(1, 1)
    /\ motorMass = Float(MaxMass)
    /\ cost["copper"] = mass["copper"] * FilePrice(1, 1)

\* ==================================================== malformed reference files
\* C11: a load of an existing file in which some row holds a field that cannot
\* be coerced to its declared type (a price, hhi, wgi_score, substitutability or
\* recyclability that is not a number, or an eu_critical_2023 that is neither
\* "True" nor "False") fails: the error propagates and no table is returned.
C11_MalformedFileFailsLoad ==
    /\ (op = "price_load" /\ pricesFile.exists /\ ~PriceFileWellFormed(pricesFile))
       => /\ loadedPrices.raised
          /\ failure # "none"
          /\ loadedPrices.table = EmptyTable
    /\ (op = "risk_load" /\ riskFile.exists /\ ~RiskFileWellFormed(riskFile))
       => /\ loadedRisk.raised
          /\ failure # "none"
          /\ loadedRisk.table = EmptyTable

\* a copper row flagged "yes": the load returns, and the table says not critical
C11_Witness ==
    /\ op = "risk_load"
    /\ riskFile = FileOf(<<[material |-> "copper", hhi |-> Num(5000), wgi_score |-> Num(50),
                           eu_critical_2023 |-> "yes", substitutability |-> Num(20),
                           recyclability |-> Num(10)]>>)
    /\ failure = "none"
    /\ ~loadedRisk.raised
    /\ loadedRisk.table["copper"].eu_critical = FALSE

\* ================================================= independence of the stages
\* ---- the second run of a two-run comparison: other prices, other risk tables
AltPrices ==
    {PriceDefaults(FALLBACK_PRICES),
     [PriceDefaults(FALLBACK_PRICES) EXCEPT !["copper"] = LargePrice],
     PriceDefaults(PriceFetcherLoad(FullPriceFile).table),
     Zeros}
AltIndicators ==
    {SupplyRiskLoaderLoad(f).table :
        f \in {AbsentFile, MaxRiskFile, PartialRiskFile, OutOfRangeRiskFile}}

\* C12: take an evaluation of the assembled pipeline and a second run with the
\* same fractions and motor mass.  If the second run differs only in its price
\* inputs (another price table, or an overridden price), its five masses, five
\* risk scores, risk index and critical mass fraction are those of the first;
\* if it differs only in its risk table, its five masses, five costs and total
\* cost are those of the first.
C12_CostAndRiskIndependent ==
    op = "evaluate"
    => /\ \A p \in AltPrices :
             LET run == Pipeline(options, motorMass.v, p, indicators) IN
             /\ run.mass = mass
             /\ ~run.risk.raised
             /\ run.risk.score = score
             /\ run.risk.index = index
             /\ run.risk.cmmf = cmmf
       /\ \A ind \in AltIndicators :
             LET run == Pipeline(options, motorMass.v, price, ind) IN
             /\ run.mass = mass
             /\ run.cost = cost
             /\ run.total = totalCost

\* an evaluation whose costs the other prices change and whose risk outputs the
\* other risk table changes
C12_Witness ==
    /\ op = "evaluate"
    /\ motorMass = Float(MaxMass)
    /\ riskFile = PartialRiskFile
    /\ index # ZeroIndex
    /\ Pipeline(options, MaxMass, Zeros, indicators).total # totalCost
    /\ Pipeline(options, MaxMass, price, FALLBACK_RISK).risk.index # index
    /\ Pipeline(options, MaxMass, price, FALLBACK_RISK).risk.cmmf # cmmf

\* ===================================================== freshness of the outputs
\* C13: every evaluation of the configured pipeline, whatever was evaluated
\* before it, writes all eighteen outputs from the motor mass it is given, the
\* price inputs and the tables loaded at setup: the five masses, the five costs
\* and their total, the five scores, and the index and the critical mass
\* fraction, which are 0 when the masses sum to zero or less; it raises nothing
\* and changes neither the loaded tables, the price inputs nor the files.
C13_EvaluationWritesEveryOutput ==
    [][op' = "evaluate"
       => /\ UNCHANGED <<options, pricesFile, riskFile, loadedPrices, loadedRisk,
                         indicators, price, overridden, configured>>
          /\ failure' = "none"
          /\ LET mv == CompositionOutputs(options, motorMass'.v)
                 total == mv["copper"] + mv["magnet"] + mv["steel"] + mv["aluminum"]
                             + mv["other"]
             IN  /\ mass' = mv
                 /\ \A s \in SuffixSet : cost'[s] = mv[s] * price[s]
                 /\ totalCost' = cost'["copper"] + cost'["magnet"] + cost'["steel"]
                                    + cost'["aluminum"] + cost'["other"]
                 /\ \A k \in MaterialSet :
                       score'[MAT_VARNAME[k]] =
                           ComputeMrs(indicators[k].hhi, indicators[k].wgi_score,
                                      indicators[k].substitutability,
                                      indicators[k].recyclability)
                 /\ IF total <= 0
                    THEN index' = ZeroIndex /\ cmmf' = ZeroFraction
                    ELSE /\ index' = ClipIndex(Weighted(score', mv), total)
                         /\ cmmf' = [num |-> CriticalMass(indicators, mv), den |-> total]]_vars

\* the guarded path: a negative motor mass, scores written, index and fraction 0
C13_Witness ==
    /\ op = "evaluate"
    /\ motorMass = Float(-1)
    /\ mass["copper"] < 0 /\ cost["copper"] < 0 /\ totalCost < 0
    /\ score["magnet"] # WideZero
    /\ index = ZeroIndex /\ cmmf = ZeroFraction

====
